---------------------------- MODULE Spec2Model ----------------------------
(***************************************************************************)
(* PyTango-tutorial: the device servers of the repository as one state     *)
(* machine.                                                                *)
(*                                                                         *)
(*   program = "twin"     src/Device_AS_twin.py  (DeviceASTwin: one device *)
(*                        holding the connection and detectors A, B, C)    *)
(*   program = "servers"  src/detectors_as_device/tango_servers.py         *)
(*                        (one DetectorDevice per detector and the         *)
(*                        MicroscopeSystemDevice coordinator)              *)
(*   program = "autoscript" src/Autoscript-min-Pytango/src (Microscope and *)
(*                        the HAADF settings device)                       *)
(*   program = "gevent"   src/async-tutorial/gevent_device_server.py       *)
(*                        (GeventDevice, whose requests and background     *)
(*                        tasks are greenlets of one loop)                 *)
(*                                                                         *)
(* The programs are separate server processes: a behaviour is a run of one *)
(* of them, chosen in Init together with the detectors its clients         *)
(* address in that run.                                                    *)
(*                                                                         *)
(* Times are integers in units of 0.1 s (0.1 s = 1, 600 s = 6000).         *)
(* A request handler is one action, except the handlers that sleep or call *)
(* another device in the middle: those are split at that point, and the    *)
(* record of the call in progress holds the handler's local variables.     *)
(***************************************************************************)
EXTENDS Integers, Sequences, FiniteSets

VARIABLES
    program,        \* which server program runs, and the detectors addressed
    tw_microscope,  \* DeviceASTwin.microscope: "None" or "Debugging"
    tw_active,      \* DeviceASTwin._detector_X_active, by detector name
    tw_dwell,       \* DeviceASTwin._detector_X_dwell_time
    tw_res,         \* DeviceASTwin._detector_X_resolution
    tw_state,       \* DeviceASTwin's Tango state
    tw_status,      \* DeviceASTwin's Tango status text
    dd_active,      \* DetectorDevice._active, by detector id
    dd_dwell,       \* DetectorDevice._dwell_time
    dd_res,         \* DetectorDevice._resolution
    dd_connected,   \* DetectorDevice._microscope_connected
    dd_state,       \* each DetectorDevice's Tango state
    dd_status,      \* each DetectorDevice's Tango status text
    ms_microscope,  \* MicroscopeSystemDevice._microscope, "None" at first
    ms_connection_string,  \* MicroscopeSystemDevice._connection_string
    ms_state,       \* MicroscopeSystemDevice's Tango state
    ms_status,      \* MicroscopeSystemDevice's Tango status text
    mic_microscope, \* Microscope._microscope: "None" or "TemMicroscopeClient"
    mic_proxies,    \* the keys of Microscope._detector_proxies
    mic_state,      \* Microscope's Tango state
    ha_dwell,       \* HAADF._dwell_time (ns)
    ha_width,       \* HAADF._image_width
    ha_height,      \* HAADF._image_height
    gv_state,       \* GeventDevice's Tango state
    gv_tasks,       \* by greenlet: where the spawned coroutine_target is
    calls,          \* by client: the request being served (its locals)
    ret             \* what the last finished request returned or raised

twinVars == <<tw_microscope, tw_active, tw_dwell, tw_res, tw_state, tw_status>>

detectorVars == <<dd_active, dd_dwell, dd_res, dd_connected, dd_state,
                  dd_status>>

systemVars == <<ms_microscope, ms_connection_string, ms_state, ms_status>>

micVars == <<mic_microscope, mic_proxies, mic_state>>

haadfVars == <<ha_dwell, ha_width, ha_height>>

geventVars == <<gv_state, gv_tasks>>

\* the variables of the programs that do not run
notTwin == <<detectorVars, systemVars, micVars, haadfVars, geventVars>>
notServers == <<twinVars, micVars, haadfVars, geventVars>>
notAutoscript == <<twinVars, detectorVars, systemVars, geventVars>>
notGevent == <<twinVars, detectorVars, systemVars, micVars, haadfVars>>

vars == <<program, twinVars, detectorVars, systemVars, micVars, haadfVars,
          geventVars, calls, ret>>

---------------------------------------------------------------------------
(* Inputs *)

Clients == {"c1", "c2"}

\* DeviceASTwin's detectors
TwinDetectors == {"detector_A", "detector_B", "detector_C"}

\* the detectors the clients of one run address: two of them, or the third
TwinWorkloads == { {"detector_A", "detector_B"}, {"detector_C"} }

\* the DetectorDevice instances, named by their detector id (the last part
\* of the device name, so any tag: D is one the image generator does not
\* know), and the devices the clients of one run address: two detector
\* devices, or the third and the MicroscopeSystemDevice, or the fourth
DetectorIds == {"A", "B", "C", "D"}
ServerWorkloads == { {"A", "B"}, {"C", "microscope"}, {"D"} }

\* dwell times written by clients (0.1 s): not positive, 6.0 s, 6.1 s
DwellInputs == {0, 60, 61}
\* resolutions written by clients
ResInputs == {-1, 0, 1, 10, 4096, 4097}
\* DeviceASTwin checks no range: one value of each kind
TwinResInputs == {-1, 10, 4097}

\* HAADF: dwell times written (ns): below the minimum, 5 us, above the maximum
HaadfDwellInputs == {0, 5000, 2000000}
\* HAADF: widths and heights written
HaadfSizeInputs == {-1, 512}
\* the names a client passes to Microscope.get_image
ImageNames == {"haadf", " HAADF ", "nonexistent_detector"}

\* connection strings, as the parts str.split(":") gives
ConnectionStrings ==
    { <<"localhost">>, <<"10.0.0.5", "1234">>, <<"localhost", "abc">>,
      <<"a", "b", "c">> }

---------------------------------------------------------------------------
(* Program constants *)

DefaultDwellTime == 1
DefaultResolution == 256
MaxTotalTime == 6000
DefaultPort == 9001
MaxResolution == 4096
\* HAADF: dwell times in ns, sizes in pixels
HaadfDefaultDwellTime == 1000
HaadfMinDwellTime == 1
HaadfMaxDwellTime == 1000000
HaadfDefaultSize == 1024
\* the most greenlets of coroutine_target alive at a time
MaxTasks == 2

NoCall == [op |-> "none", dev |-> "none"]
NoRet == [op |-> "none", kind |-> "none"]

---------------------------------------------------------------------------
(* Helpers *)

\* the devices or detectors among S that the clients of this run address
Addressed(S) == program.addressed \cap S

\* mutant: the total time counts one row of pixels only
Mutant_TotalTime_one_row(dwell, res) == dwell * res

\* total_time = dwell_time * resolution * resolution
TotalTime(dwell, res) == dwell * res * res

\* mutant: total_time > 600 written as total_time >= 600
Mutant_OverBudget_inclusive(total_time) == total_time >= MaxTotalTime

\* total_time > 600
OverBudget(total_time) == total_time > MaxTotalTime

\* f"{total_time:.1f}": the decimal text of a total, as <<seconds, tenths>>
Fmt1(t) == <<t \div 10, t % 10>>

\* int(port): the number a decimal string denotes, "ValueError" otherwise
ParseInt(s) ==
    CASE s = "1234" -> [ok |-> TRUE, val |-> 1234]
      [] s = "9001" -> [ok |-> TRUE, val |-> 9001]
      [] OTHER -> [ok |-> FALSE, error |-> "ValueError"]

\* mutant: the port given in the connection string is ignored
Mutant_ParseEndpoint_default_port(cs) ==
    IF Len(cs) = 1 THEN [ok |-> TRUE, host |-> cs[1], port |-> DefaultPort]
    ELSE IF Len(cs) # 2 THEN [ok |-> FALSE, error |-> "ValueError"]
    ELSE IF ~ParseInt(cs[2]).ok THEN [ok |-> FALSE, error |-> "ValueError"]
    ELSE [ok |-> TRUE, host |-> cs[1], port |-> DefaultPort]

\* The parse of Connect: connection_string.split(":") unpacked into host
\* and port (a ValueError unless it gives exactly two parts), int(port), and
\* port 9001 when the string holds no ":"
ParseEndpoint(cs) ==
    IF Len(cs) = 1 THEN [ok |-> TRUE, host |-> cs[1], port |-> DefaultPort]
    ELSE IF Len(cs) # 2 THEN [ok |-> FALSE, error |-> "ValueError"]
    ELSE IF ~ParseInt(cs[2]).ok THEN [ok |-> FALSE, error |-> "ValueError"]
    ELSE [ok |-> TRUE, host |-> cs[1], port |-> ParseInt(cs[2]).val]

\* mutant: the device serves requests without serialisation
Mutant_MonitorFree_none(dev) == TRUE

\* Tango serialises the requests of one device (serialisation by device, the
\* default of tango.server.Device in the synchronous green mode): a request
\* is served only when no other request of the device is in progress.
MonitorFree(dev) == \A c \in Clients : calls[c].dev # dev

\* np.random.rand(resolution, resolution): the number of samples, or the
\* ValueError numpy raises for a negative dimension
RandImage(res) ==
    IF res < 0 THEN [ok |-> FALSE, error |-> "ValueError"]
    ELSE [ok |-> TRUE, n |-> res * res]

---------------------------------------------------------------------------
(* src/Device_AS_twin.py *)

TwinInit ==
    /\ tw_microscope = "None"
    /\ tw_active = [d \in TwinDetectors |-> FALSE]
    /\ tw_dwell = [d \in TwinDetectors |-> DefaultDwellTime]
    /\ tw_res = [d \in TwinDetectors |-> DefaultResolution]
    /\ tw_state = "INIT"
    /\ tw_status = [text |-> "Device initialized"]

DeviceASTwin_read_detector_active(d) ==
    /\ program.name = "twin" /\ MonitorFree("twin")
    /\ ret' = [op |-> "read_active", kind |-> "ok", val |-> tw_active[d],
               warn |-> FALSE]
    /\ UNCHANGED <<program, twinVars, notTwin, calls>>

DeviceASTwin_write_detector_active(d, value) ==
    /\ program.name = "twin" /\ MonitorFree("twin")
    /\ tw_active' = [tw_active EXCEPT ![d] = value]
    /\ ret' = [op |-> "write_active", kind |-> "ok"]
    /\ UNCHANGED <<program, tw_microscope, tw_dwell, tw_res, tw_state,
                   tw_status, notTwin, calls>>

\* mutant: reading the dwell time of an inactive detector is an error
Mutant_read_dwell_time_needs_active(d) ==
    /\ program.name = "twin" /\ MonitorFree("twin")
    /\ IF tw_active[d]
       THEN ret' = [op |-> "read_dwell_time", kind |-> "ok",
                    val |-> tw_dwell[d], warn |-> FALSE]
       ELSE ret' = [op |-> "read_dwell_time", kind |-> "NotActive"]
    /\ UNCHANGED <<program, twinVars, notTwin, calls>>

DeviceASTwin_read_detector_dwell_time(d) ==
    /\ program.name = "twin" /\ MonitorFree("twin")
    /\ ret' = [op |-> "read_dwell_time", kind |-> "ok", val |-> tw_dwell[d],
               warn |-> ~tw_active[d]]
    /\ UNCHANGED <<program, twinVars, notTwin, calls>>

\* mutant: the write without the active check
Mutant_write_dwell_time_unchecked(d, value) ==
    /\ program.name = "twin" /\ MonitorFree("twin")
    /\ tw_dwell' = [tw_dwell EXCEPT ![d] = value]
    /\ ret' = [op |-> "write_dwell_time", kind |-> "ok"]
    /\ UNCHANGED <<program, tw_microscope, tw_active, tw_res, tw_state,
                   tw_status, notTwin, calls>>

DeviceASTwin_write_detector_dwell_time(d, value) ==
    /\ program.name = "twin" /\ MonitorFree("twin")
    /\ IF ~tw_active[d]
       THEN /\ ret' = [op |-> "write_dwell_time", kind |-> "NotActive"]
            /\ UNCHANGED tw_dwell
       ELSE /\ tw_dwell' = [tw_dwell EXCEPT ![d] = value]
            /\ ret' = [op |-> "write_dwell_time", kind |-> "ok"]
    /\ UNCHANGED <<program, tw_microscope, tw_active, tw_res, tw_state,
                   tw_status, notTwin, calls>>

DeviceASTwin_read_detector_resolution(d) ==
    /\ program.name = "twin" /\ MonitorFree("twin")
    /\ ret' = [op |-> "read_resolution", kind |-> "ok", val |-> tw_res[d],
               warn |-> ~tw_active[d]]
    /\ UNCHANGED <<program, twinVars, notTwin, calls>>

DeviceASTwin_write_detector_resolution(d, value) ==
    /\ program.name = "twin" /\ MonitorFree("twin")
    /\ IF ~tw_active[d]
       THEN /\ ret' = [op |-> "write_resolution", kind |-> "NotActive"]
            /\ UNCHANGED tw_res
       ELSE /\ tw_res' = [tw_res EXCEPT ![d] = value]
            /\ ret' = [op |-> "write_resolution", kind |-> "ok"]
    /\ UNCHANGED <<program, tw_microscope, tw_active, tw_dwell, tw_state,
                   tw_status, notTwin, calls>>

\* Connect: the parse runs before the try block, so a malformed string
\* raises without touching the device.
DeviceASTwin_Connect(cs) ==
    /\ program.name = "twin" /\ MonitorFree("twin")
    /\ LET parsed == ParseEndpoint(cs)
       IN IF ~parsed.ok
          THEN /\ ret' = [op |-> "Connect", kind |-> parsed.error]
               /\ UNCHANGED twinVars
          ELSE /\ tw_microscope' = "Debugging"
               /\ tw_state' = "STANDBY"
               /\ tw_status' = [text |-> "Connected", host |-> parsed.host,
                                port |-> parsed.port]
               /\ ret' = [op |-> "Connect", kind |-> "ok",
                          host |-> parsed.host, port |-> parsed.port]
               /\ UNCHANGED <<tw_active, tw_dwell, tw_res>>
    /\ UNCHANGED <<program, notTwin, calls>>

\* GetImage up to time.sleep(5): the checks, then RUNNING
DeviceASTwin_GetImage(c, detector_name) ==
    /\ program.name = "twin" /\ MonitorFree("twin")
    /\ calls[c] = NoCall
    /\ IF tw_microscope = "None"
       THEN /\ ret' = [op |-> "GetImage", kind |-> "NotConnected"]
            /\ UNCHANGED <<twinVars, calls>>
       ELSE IF detector_name \notin TwinDetectors
       THEN /\ ret' = [op |-> "GetImage", kind |-> "UnknownDetector",
                       name |-> detector_name, available |-> TwinDetectors]
            /\ UNCHANGED <<twinVars, calls>>
       ELSE LET active == tw_active[detector_name]
                dwell_time == tw_dwell[detector_name]
                resolution == tw_res[detector_name]
                total_time == TotalTime(dwell_time, resolution)
            IN IF ~active
               THEN /\ ret' = [op |-> "GetImage", kind |-> "NotActive"]
                    /\ UNCHANGED <<twinVars, calls>>
               ELSE IF OverBudget(total_time)
               THEN /\ ret' = [op |-> "GetImage", kind |-> "TooLong",
                               total |-> Fmt1(total_time), max |-> 600]
                    /\ UNCHANGED <<twinVars, calls>>
               ELSE /\ tw_state' = "RUNNING"
                    /\ tw_status' = [text |-> "Acquiring", w |-> resolution,
                                     h |-> resolution, id |-> detector_name]
                    /\ calls' = [calls EXCEPT ![c] =
                                   [op |-> "GetImage", dev |-> "twin",
                                    detector |-> detector_name,
                                    active |-> active,
                                    dwell_time |-> dwell_time,
                                    resolution |-> resolution,
                                    total_time |-> total_time]]
                    /\ UNCHANGED <<tw_microscope, tw_active, tw_dwell, tw_res,
                                   ret>>
    /\ UNCHANGED <<program, notTwin>>

\* mutant: a failed acquisition resets the detector's resolution
Mutant_GetImage_return_resets(c) ==
    /\ program.name = "twin"
    /\ calls[c].op = "GetImage" /\ calls[c].dev = "twin"
    /\ LET image == RandImage(calls[c].resolution)
       IN IF image.ok
          THEN /\ tw_state' = "STANDBY"
               /\ tw_status' = [text |-> "Image acquisition complete"]
               /\ ret' = [op |-> "GetImage", kind |-> "ok", n |-> image.n]
               /\ UNCHANGED tw_res
          ELSE /\ tw_state' = "FAULT"
               /\ tw_status' = [text |-> "Image acquisition failed",
                                error |-> image.error]
               /\ ret' = [op |-> "GetImage", kind |-> image.error]
               /\ tw_res' = [tw_res EXCEPT ![calls[c].detector] =
                                DefaultResolution]
    /\ calls' = [calls EXCEPT ![c] = NoCall]
    /\ UNCHANGED <<program, tw_microscope, tw_active, tw_dwell, notTwin>>

\* mutant: an error in the acquisition leaves the device in RUNNING
Mutant_GetImage_return_stays_running(c) ==
    /\ program.name = "twin"
    /\ calls[c].op = "GetImage" /\ calls[c].dev = "twin"
    /\ LET image == RandImage(calls[c].resolution)
       IN IF image.ok
          THEN /\ tw_state' = "STANDBY"
               /\ tw_status' = [text |-> "Image acquisition complete"]
               /\ ret' = [op |-> "GetImage", kind |-> "ok", n |-> image.n]
          ELSE /\ ret' = [op |-> "GetImage", kind |-> image.error]
               /\ UNCHANGED <<tw_state, tw_status>>
    /\ calls' = [calls EXCEPT ![c] = NoCall]
    /\ UNCHANGED <<program, tw_microscope, tw_active, tw_dwell, tw_res,
                   notTwin>>

\* GetImage after time.sleep(5): the image, then STANDBY, or FAULT on an error
DeviceASTwin_GetImage_return(c) ==
    /\ program.name = "twin"
    /\ calls[c].op = "GetImage" /\ calls[c].dev = "twin"
    /\ LET image == RandImage(calls[c].resolution)
       IN IF image.ok
          THEN /\ tw_state' = "STANDBY"
               /\ tw_status' = [text |-> "Image acquisition complete"]
               /\ ret' = [op |-> "GetImage", kind |-> "ok", n |-> image.n]
          ELSE /\ tw_state' = "FAULT"
               /\ tw_status' = [text |-> "Image acquisition failed",
                                error |-> image.error]
               /\ ret' = [op |-> "GetImage", kind |-> image.error]
    /\ calls' = [calls EXCEPT ![c] = NoCall]
    /\ UNCHANGED <<program, tw_microscope, tw_active, tw_dwell, tw_res,
                   notTwin>>

DeviceASTwin_GetStage ==
    /\ program.name = "twin" /\ MonitorFree("twin")
    /\ IF tw_microscope = "None"
       THEN ret' = [op |-> "GetStage", kind |-> "NotConnected"]
       ELSE ret' = [op |-> "GetStage", kind |-> "ok", n |-> 5]
    /\ UNCHANGED <<program, twinVars, notTwin, calls>>

TwinNext ==
    \/ \E d \in program.addressed : DeviceASTwin_read_detector_active(d)
    \/ \E d \in program.addressed, v \in BOOLEAN :
          DeviceASTwin_write_detector_active(d, v)
    \/ \E d \in program.addressed : DeviceASTwin_read_detector_dwell_time(d)
    \/ \E d \in program.addressed, v \in DwellInputs :
          DeviceASTwin_write_detector_dwell_time(d, v)
    \/ \E d \in program.addressed : DeviceASTwin_read_detector_resolution(d)
    \/ \E d \in program.addressed, v \in TwinResInputs :
          DeviceASTwin_write_detector_resolution(d, v)
    \/ \E cs \in ConnectionStrings : DeviceASTwin_Connect(cs)
    \/ \E c \in Clients, n \in program.addressed \cup {"nonexistent"} :
          DeviceASTwin_GetImage(c, n)
    \/ \E c \in Clients : DeviceASTwin_GetImage_return(c)
    \/ DeviceASTwin_GetStage

---------------------------------------------------------------------------
(* src/detectors_as_device/tango_servers.py: DetectorDevice *)

\* mutant: detectors are created active
Mutant_DetectorInit_active ==
    /\ dd_active = [d \in DetectorIds |-> TRUE]
    /\ dd_dwell = [d \in DetectorIds |-> DefaultDwellTime]
    /\ dd_res = [d \in DetectorIds |-> DefaultResolution]
    /\ dd_connected = [d \in DetectorIds |-> FALSE]
    /\ dd_state = [d \in DetectorIds |-> "STANDBY"]
    /\ dd_status = [d \in DetectorIds |->
                      [text |-> "Detector initialized and ready", id |-> d]]

DetectorInit ==
    /\ dd_active = [d \in DetectorIds |-> FALSE]
    /\ dd_dwell = [d \in DetectorIds |-> DefaultDwellTime]
    /\ dd_res = [d \in DetectorIds |-> DefaultResolution]
    /\ dd_connected = [d \in DetectorIds |-> FALSE]
    /\ dd_state = [d \in DetectorIds |-> "STANDBY"]
    /\ dd_status = [d \in DetectorIds |->
                      [text |-> "Detector initialized and ready", id |-> d]]

DetectorDevice_active(d) ==
    /\ program.name = "servers" /\ MonitorFree(d)
    /\ ret' = [op |-> "read_active", kind |-> "ok", val |-> dd_active[d],
               warn |-> FALSE]
    /\ UNCHANGED <<program, detectorVars, systemVars, notServers, calls>>

\* mutant: activating a detector resets its dwell time and resolution
Mutant_write_active_resets(d, value) ==
    /\ program.name = "servers" /\ MonitorFree(d)
    /\ dd_active' = [dd_active EXCEPT ![d] = value]
    /\ dd_dwell' = [dd_dwell EXCEPT ![d] =
                      IF value THEN DefaultDwellTime ELSE @]
    /\ dd_res' = [dd_res EXCEPT ![d] = IF value THEN DefaultResolution ELSE @]
    /\ ret' = [op |-> "write_active", kind |-> "ok"]
    /\ UNCHANGED <<program, dd_connected, dd_state, dd_status, systemVars,
                   notServers, calls>>

DetectorDevice_write_active(d, value) ==
    /\ program.name = "servers" /\ MonitorFree(d)
    /\ dd_active' = [dd_active EXCEPT ![d] = value]
    /\ ret' = [op |-> "write_active", kind |-> "ok"]
    /\ UNCHANGED <<program, dd_dwell, dd_res, dd_connected,
                   dd_state, dd_status, systemVars, notServers, calls>>

DetectorDevice_dwell_time(d) ==
    /\ program.name = "servers" /\ MonitorFree(d)
    /\ ret' = [op |-> "read_dwell_time", kind |-> "ok", val |-> dd_dwell[d],
               warn |-> FALSE]
    /\ UNCHANGED <<program, detectorVars, systemVars, notServers, calls>>

DetectorDevice_write_dwell_time(d, value) ==
    /\ program.name = "servers" /\ MonitorFree(d)
    /\ IF ~dd_active[d]
       THEN /\ ret' = [op |-> "write_dwell_time", kind |-> "NotActive"]
            /\ UNCHANGED dd_dwell
       ELSE IF value <= 0
       THEN /\ ret' = [op |-> "write_dwell_time", kind |-> "ValueError"]
            /\ UNCHANGED dd_dwell
       ELSE /\ dd_dwell' = [dd_dwell EXCEPT ![d] = value]
            /\ ret' = [op |-> "write_dwell_time", kind |-> "ok"]
    /\ UNCHANGED <<program, dd_active, dd_res, dd_connected,
                   dd_state, dd_status, systemVars, notServers, calls>>

DetectorDevice_resolution(d) ==
    /\ program.name = "servers" /\ MonitorFree(d)
    /\ ret' = [op |-> "read_resolution", kind |-> "ok", val |-> dd_res[d],
               warn |-> FALSE]
    /\ UNCHANGED <<program, detectorVars, systemVars, notServers, calls>>

\* mutant: a resolution write is served while a command of the device runs
Mutant_write_resolution_unserialised(d, value) ==
    /\ program.name = "servers"
    /\ IF ~dd_active[d]
       THEN /\ ret' = [op |-> "write_resolution", kind |-> "NotActive"]
            /\ UNCHANGED dd_res
       ELSE IF value <= 0 \/ value > MaxResolution
       THEN /\ ret' = [op |-> "write_resolution", kind |-> "ValueError"]
            /\ UNCHANGED dd_res
       ELSE /\ dd_res' = [dd_res EXCEPT ![d] = value]
            /\ ret' = [op |-> "write_resolution", kind |-> "ok"]
    /\ UNCHANGED <<program, dd_active, dd_dwell, dd_connected,
                   dd_state, dd_status, systemVars, notServers, calls>>

DetectorDevice_write_resolution(d, value) ==
    /\ program.name = "servers" /\ MonitorFree(d)
    /\ IF ~dd_active[d]
       THEN /\ ret' = [op |-> "write_resolution", kind |-> "NotActive"]
            /\ UNCHANGED dd_res
       ELSE IF value <= 0 \/ value > MaxResolution
       THEN /\ ret' = [op |-> "write_resolution", kind |-> "ValueError"]
            /\ UNCHANGED dd_res
       ELSE /\ dd_res' = [dd_res EXCEPT ![d] = value]
            /\ ret' = [op |-> "write_resolution", kind |-> "ok"]
    /\ UNCHANGED <<program, dd_active, dd_dwell, dd_connected,
                   dd_state, dd_status, systemVars, notServers, calls>>

\* mutant: an identity other than A, B, C is an error
Mutant_generate_unknown_raises(id, res) ==
    IF res < 0 \/ id \notin {"A", "B", "C"}
    THEN [ok |-> FALSE, error |-> "ValueError"]
    ELSE [ok |-> TRUE,
          family |-> IF id = "A" THEN "gradient"
                     ELSE IF id = "B" THEN "radial" ELSE "random",
          rows |-> res, cols |-> res, n |-> res * res, lo |-> 0, hi |-> 255]

\* _generate_simulated_image: the pattern the detector id selects, the
\* shape and the number of samples of the resolution x resolution image,
\* and the least and the greatest sample, in whole units (np.linspace and
\* np.random.rand raise ValueError for a negative size).
\*   gradient: (X + Y) / 2 * 255 over linspace(0, 1, res), which is [0.] for
\*     res = 1: from 0 at the first pixel to 255 at the last
\*   radial: (1 - clip(R, 0, 1)) * 255 over linspace(-1, 1, res): 0 in the
\*     corners, 255 at the centre pixel of an odd res, and for an even res
\*     255 * (1 - sqrt(2) / (res - 1)) at the four pixels next to the centre
\*   random: rand() * 255, anywhere from 0 up to 255
DetectorDevice_generate_simulated_image(id, res) ==
    LET family == IF id = "A" THEN "gradient"
                  ELSE IF id = "B" THEN "radial" ELSE "random"
        hi == IF family = "random" THEN 255
              ELSE IF res <= 1 THEN 0
              ELSE IF family = "gradient" THEN ((1 + 1) * 255) \div 2
              ELSE IF res % 2 = 1 THEN 255
              ELSE IF res = 2 THEN 0
              ELSE 255 - ((255 * 14143) \div (10000 * (res - 1)))
    IN IF res < 0 THEN [ok |-> FALSE, error |-> "ValueError"]
       ELSE [ok |-> TRUE, family |-> family, rows |-> res, cols |-> res,
             n |-> res * res, lo |-> 0, hi |-> hi]

\* mutant: the time budget is checked before the active flag
Mutant_GetImage_budget_first(c, d) ==
    /\ program.name = "servers" /\ MonitorFree(d)
    /\ calls[c] = NoCall
    /\ LET total_time == TotalTime(dd_dwell[d], dd_res[d])
       IN IF OverBudget(total_time)
          THEN /\ ret' = [op |-> "GetImage", kind |-> "TooLong",
                          total |-> Fmt1(total_time), max |-> 600]
               /\ UNCHANGED <<detectorVars, calls>>
          ELSE IF ~dd_active[d]
          THEN /\ ret' = [op |-> "GetImage", kind |-> "NotActive"]
               /\ UNCHANGED <<detectorVars, calls>>
          ELSE /\ dd_state' = [dd_state EXCEPT ![d] = "RUNNING"]
               /\ dd_status' = [dd_status EXCEPT ![d] =
                                  [text |-> "Acquiring", w |-> dd_res[d],
                                   h |-> dd_res[d], id |-> d]]
               /\ calls' = [calls EXCEPT ![c] =
                              [op |-> "GetImage", dev |-> d,
                               total_time |-> total_time]]
               /\ UNCHANGED <<dd_active, dd_dwell, dd_res, dd_connected, ret>>
    /\ UNCHANGED <<program, systemVars, notServers>>

\* GetImage up to time.sleep(2): the checks, then RUNNING. The status reads
\* self._resolution; total_time is the handler's only local.
DetectorDevice_GetImage(c, d) ==
    /\ program.name = "servers" /\ MonitorFree(d)
    /\ calls[c] = NoCall
    /\ LET total_time == TotalTime(dd_dwell[d], dd_res[d])
       IN IF ~dd_active[d]
          THEN /\ ret' = [op |-> "GetImage", kind |-> "NotActive"]
               /\ UNCHANGED <<detectorVars, calls>>
          ELSE IF OverBudget(total_time)
          THEN /\ ret' = [op |-> "GetImage", kind |-> "TooLong",
                          total |-> Fmt1(total_time), max |-> 600]
               /\ UNCHANGED <<detectorVars, calls>>
          ELSE /\ dd_state' = [dd_state EXCEPT ![d] = "RUNNING"]
               /\ dd_status' = [dd_status EXCEPT ![d] =
                                  [text |-> "Acquiring", w |-> dd_res[d],
                                   h |-> dd_res[d], id |-> d]]
               /\ calls' = [calls EXCEPT ![c] =
                              [op |-> "GetImage", dev |-> d,
                               total_time |-> total_time]]
               /\ UNCHANGED <<dd_active, dd_dwell, dd_res, dd_connected, ret>>
    /\ UNCHANGED <<program, systemVars, notServers>>

\* mutant: a finished acquisition deactivates the detector
Mutant_GetImage_return_deactivates(c) ==
    /\ program.name = "servers"
    /\ calls[c].op = "GetImage" /\ calls[c].dev \in DetectorIds
    /\ LET d == calls[c].dev
           image == DetectorDevice_generate_simulated_image(d, dd_res[d])
       IN /\ dd_state' = [dd_state EXCEPT ![d] = "STANDBY"]
          /\ dd_status' = [dd_status EXCEPT ![d] =
                             [text |-> "Detector ready", id |-> d]]
          /\ dd_active' = [dd_active EXCEPT ![d] = FALSE]
          /\ ret' = [op |-> "GetImage", kind |-> "ok", n |-> image.n,
                     image |-> image]
    /\ calls' = [calls EXCEPT ![c] = NoCall]
    /\ UNCHANGED <<program, dd_dwell, dd_res, dd_connected, systemVars,
                   notServers>>

\* GetImage after time.sleep(2): the image of the resolution the device
\* holds now, then STANDBY, or FAULT on an error
DetectorDevice_GetImage_return(c) ==
    /\ program.name = "servers"
    /\ calls[c].op = "GetImage" /\ calls[c].dev \in DetectorIds
    /\ LET d == calls[c].dev
           image == DetectorDevice_generate_simulated_image(d, dd_res[d])
       IN IF image.ok
          THEN /\ dd_state' = [dd_state EXCEPT ![d] = "STANDBY"]
               /\ dd_status' = [dd_status EXCEPT ![d] =
                                  [text |-> "Detector ready", id |-> d]]
               /\ ret' = [op |-> "GetImage", kind |-> "ok", n |-> image.n,
                          image |-> image]
          ELSE /\ dd_state' = [dd_state EXCEPT ![d] = "FAULT"]
               /\ dd_status' = [dd_status EXCEPT ![d] =
                                  [text |-> "Image acquisition failed",
                                   error |-> image.error]]
               /\ ret' = [op |-> "GetImage", kind |-> image.error]
    /\ calls' = [calls EXCEPT ![c] = NoCall]
    /\ UNCHANGED <<program, dd_active, dd_dwell, dd_res,
                   dd_connected, systemVars, notServers>>

---------------------------------------------------------------------------
(* src/detectors_as_device/tango_servers.py: MicroscopeSystemDevice *)

SystemInit ==
    /\ ms_microscope = "None"
    /\ ms_connection_string = <<>>
    /\ ms_state = "INIT"
    /\ ms_status = [text |-> "Microscope system initialized"]

\* Connect: the parse runs before the try block, so a malformed string
\* raises without touching the device.
MicroscopeSystemDevice_Connect(cs) ==
    /\ program.name = "servers" /\ "microscope" \in program.addressed
    /\ MonitorFree("microscope")
    /\ LET parsed == ParseEndpoint(cs)
       IN IF ~parsed.ok
          THEN /\ ret' = [op |-> "Connect", kind |-> parsed.error]
               /\ UNCHANGED systemVars
          ELSE /\ ms_microscope' = "DigitalTwin"
               /\ ms_connection_string' = <<parsed.host, parsed.port>>
               /\ ms_state' = "ON"
               /\ ms_status' = [text |-> "Connected", host |-> parsed.host,
                                port |-> parsed.port]
               /\ ret' = [op |-> "Connect", kind |-> "ok",
                          host |-> parsed.host, port |-> parsed.port]
    /\ UNCHANGED <<program, detectorVars, notServers, calls>>

\* mutant: GetStage on an unconnected coordinator puts it in FAULT
Mutant_GetStage_faults ==
    /\ program.name = "servers" /\ "microscope" \in program.addressed
    /\ MonitorFree("microscope")
    /\ IF ms_microscope = "None"
       THEN /\ ret' = [op |-> "GetStage", kind |-> "NotConnected"]
            /\ ms_state' = "FAULT"
       ELSE /\ ret' = [op |-> "GetStage", kind |-> "ok", n |-> 5]
            /\ UNCHANGED ms_state
    /\ UNCHANGED <<program, detectorVars, ms_microscope,
                   ms_connection_string, ms_status, notServers, calls>>

MicroscopeSystemDevice_GetStage ==
    /\ program.name = "servers" /\ "microscope" \in program.addressed
    /\ MonitorFree("microscope")
    /\ IF ms_microscope = "None"
       THEN ret' = [op |-> "GetStage", kind |-> "NotConnected"]
       ELSE ret' = [op |-> "GetStage", kind |-> "ok", n |-> 5]
    /\ UNCHANGED <<program, detectorVars, systemVars, notServers, calls>>

ServersNext ==
    \/ \E d \in Addressed(DetectorIds) : DetectorDevice_active(d)
    \/ \E d \in Addressed(DetectorIds), v \in BOOLEAN :
          DetectorDevice_write_active(d, v)
    \/ \E d \in Addressed(DetectorIds) : DetectorDevice_dwell_time(d)
    \/ \E d \in Addressed(DetectorIds), v \in DwellInputs :
          DetectorDevice_write_dwell_time(d, v)
    \/ \E d \in Addressed(DetectorIds) : DetectorDevice_resolution(d)
    \/ \E d \in Addressed(DetectorIds), v \in ResInputs :
          DetectorDevice_write_resolution(d, v)
    \/ \E c \in Clients, d \in Addressed(DetectorIds) :
          DetectorDevice_GetImage(c, d)
    \/ \E c \in Clients : DetectorDevice_GetImage_return(c)
    \/ \E cs \in ConnectionStrings : MicroscopeSystemDevice_Connect(cs)
    \/ MicroscopeSystemDevice_GetStage

---------------------------------------------------------------------------

(* src/Autoscript-min-Pytango/src/detectors/HAADF.py *)

HaadfInit ==
    /\ ha_dwell = HaadfDefaultDwellTime
    /\ ha_width = HaadfDefaultSize
    /\ ha_height = HaadfDefaultSize

HAADF_read_dwell_time ==
    /\ program.name = "autoscript"
    /\ ret' = [op |-> "read_dwell_time", kind |-> "ok", val |-> ha_dwell]
    /\ UNCHANGED <<program, micVars, haadfVars, notAutoscript, calls>>

\* the attribute declares min_value=1e-9 and max_value=1e-3: Tango refuses
\* a value outside them before write_dwell_time runs
HAADF_write_dwell_time(value) ==
    /\ program.name = "autoscript"
    /\ IF value < HaadfMinDwellTime \/ value > HaadfMaxDwellTime
       THEN /\ ret' = [op |-> "write_dwell_time", kind |-> "OutsideLimit"]
            /\ UNCHANGED ha_dwell
       ELSE /\ ha_dwell' = value
            /\ ret' = [op |-> "write_dwell_time", kind |-> "ok"]
    /\ UNCHANGED <<program, micVars, ha_width, ha_height, notAutoscript,
                   calls>>

HAADF_read_image_width ==
    /\ program.name = "autoscript"
    /\ ret' = [op |-> "read_image_width", kind |-> "ok", val |-> ha_width]
    /\ UNCHANGED <<program, micVars, haadfVars, notAutoscript, calls>>

\* mutant: a width write makes the image square
Mutant_write_image_width_square(value) ==
    /\ program.name = "autoscript"
    /\ ha_width' = value
    /\ ha_height' = value
    /\ ret' = [op |-> "write_image_width", kind |-> "ok"]
    /\ UNCHANGED <<program, micVars, ha_dwell, notAutoscript, calls>>

HAADF_write_image_width(value) ==
    /\ program.name = "autoscript"
    /\ ha_width' = value
    /\ ret' = [op |-> "write_image_width", kind |-> "ok"]
    /\ UNCHANGED <<program, micVars, ha_dwell, ha_height, notAutoscript,
                   calls>>

HAADF_read_image_height ==
    /\ program.name = "autoscript"
    /\ ret' = [op |-> "read_image_height", kind |-> "ok", val |-> ha_height]
    /\ UNCHANGED <<program, micVars, haadfVars, notAutoscript, calls>>

HAADF_write_image_height(value) ==
    /\ program.name = "autoscript"
    /\ ha_height' = value
    /\ ret' = [op |-> "write_image_height", kind |-> "ok"]
    /\ UNCHANGED <<program, micVars, ha_dwell, ha_width, notAutoscript,
                   calls>>

---------------------------------------------------------------------------
(* src/Autoscript-min-Pytango/src/Microscope.py *)

\* _connect: _connect_autoscript, _connect_detector_proxies, set_state(ON).
\* With AutoScript importable, _connect_autoscript builds the client and
\* reads self.autoscript_host, which the device does not define (its
\* properties are autoscript_host_ip and autoscript_host_port): the except
\* branch sets FAULT, and _connect goes on. proxy_ok: whether
\* tango.DeviceProxy(address) succeeds.
Microscope_connect(microscope, proxies, proxy_ok) ==
    [microscope |-> IF program.autoscript_available
                    THEN "TemMicroscopeClient" ELSE microscope,
     connection_failed |-> program.autoscript_available,
     proxies |-> IF proxy_ok THEN proxies \cup {"haadf"} ELSE proxies,
     state |-> "ON"]

\* init_device: INIT, no client, no proxies, then _connect
MicroscopeInit ==
    \E proxy_ok \in IF program.name = "autoscript" THEN BOOLEAN ELSE {FALSE} :
        LET r == Microscope_connect("None", {}, proxy_ok)
        IN /\ mic_microscope = r.microscope
           /\ mic_proxies = r.proxies
           /\ mic_state = r.state

Microscope_Connect(proxy_ok) ==
    /\ program.name = "autoscript" /\ MonitorFree("Microscope")
    /\ LET r == Microscope_connect(mic_microscope, mic_proxies, proxy_ok)
       IN /\ mic_microscope' = r.microscope
          /\ mic_proxies' = r.proxies
          /\ mic_state' = r.state
          /\ ret' = [op |-> "Connect", kind |-> "ok",
                     connection_failed |-> r.connection_failed]
    /\ UNCHANGED <<program, haadfVars, notAutoscript, calls>>

\* mutant: Disconnect is served while a command of the device runs
Mutant_Disconnect_unserialised ==
    /\ program.name = "autoscript"
    /\ mic_microscope' = "None"
    /\ mic_state' = "OFF"
    /\ ret' = [op |-> "Disconnect", kind |-> "ok"]
    /\ UNCHANGED <<program, mic_proxies, haadfVars, notAutoscript, calls>>

Microscope_Disconnect ==
    /\ program.name = "autoscript" /\ MonitorFree("Microscope")
    /\ mic_microscope' = "None"
    /\ mic_state' = "OFF"
    /\ ret' = [op |-> "Disconnect", kind |-> "ok"]
    /\ UNCHANGED <<program, mic_proxies, haadfVars, notAutoscript, calls>>

\* detector_name.lower().strip()
LowerStrip(name) ==
    CASE name = " HAADF " -> "haadf"
      [] OTHER -> name

\* mutant: the simulated frame is square, width x width
Mutant_acquire_stem_image_square(width, height) ==
    IF width < 0 \/ height < 0 THEN [ok |-> FALSE, error |-> "ValueError"]
    ELSE [ok |-> TRUE, dtype |-> "uint16", rows |-> width, cols |-> width,
          n |-> width * width]

\* _acquire_stem_image: the simulated image in both branches;
\* rng.integers(..., size=(height, width)) raises ValueError for a negative
\* dimension
Microscope_acquire_stem_image(width, height) ==
    IF width < 0 \/ height < 0 THEN [ok |-> FALSE, error |-> "ValueError"]
    ELSE [ok |-> TRUE, dtype |-> "uint16", rows |-> height, cols |-> width,
          n |-> height * width]

\* mutant: an unknown detector name puts the device in FAULT
Mutant_get_image_unknown_faults(c, detector_name) ==
    /\ program.name = "autoscript" /\ MonitorFree("Microscope")
    /\ calls[c] = NoCall
    /\ LET name == LowerStrip(detector_name)
       IN IF name \notin mic_proxies
          THEN /\ ret' = [op |-> "get_image", kind |-> "UnknownDetector",
                          name |-> name, available |-> mic_proxies]
               /\ mic_state' = "FAULT"
               /\ UNCHANGED <<calls, mic_microscope, mic_proxies>>
          ELSE /\ calls' = [calls EXCEPT ![c] =
                              [op |-> "get_image", dev |-> "Microscope",
                               pc |-> "width", detector_name |-> name,
                               dwell_time |-> ha_dwell]]
               /\ UNCHANGED <<ret, micVars>>
    /\ UNCHANGED <<program, haadfVars, notAutoscript>>

\* get_image up to the first proxy read: the lookup, then proxy.dwell_time
Microscope_get_image(c, detector_name) ==
    /\ program.name = "autoscript" /\ MonitorFree("Microscope")
    /\ calls[c] = NoCall
    /\ LET name == LowerStrip(detector_name)
       IN IF name \notin mic_proxies
          THEN /\ ret' = [op |-> "get_image", kind |-> "UnknownDetector",
                          name |-> name, available |-> mic_proxies]
               /\ UNCHANGED calls
          ELSE /\ calls' = [calls EXCEPT ![c] =
                              [op |-> "get_image", dev |-> "Microscope",
                               pc |-> "width", detector_name |-> name,
                               dwell_time |-> ha_dwell]]
               /\ UNCHANGED ret
    /\ UNCHANGED <<program, micVars, haadfVars, notAutoscript>>

\* get_image: width = proxy.image_width
Microscope_get_image_width(c) ==
    /\ program.name = "autoscript"
    /\ calls[c].op = "get_image" /\ calls[c].pc = "width"
    /\ calls' = [calls EXCEPT ![c] =
                   [op |-> "get_image", dev |-> "Microscope",
                    pc |-> "height", detector_name |-> calls[c].detector_name,
                    dwell_time |-> calls[c].dwell_time, width |-> ha_width]]
    /\ UNCHANGED <<program, micVars, haadfVars, notAutoscript, ret>>

\* get_image from height = proxy.image_height to the return
Microscope_get_image_return(c) ==
    /\ program.name = "autoscript"
    /\ calls[c].op = "get_image" /\ calls[c].pc = "height"
    /\ LET width == calls[c].width
           height == ha_height
           adorned_image == Microscope_acquire_stem_image(width, height)
       IN IF adorned_image.ok
          THEN ret' = [op |-> "get_image", kind |-> "ok",
                       detector |-> calls[c].detector_name,
                       shape |-> <<height, width>>,
                       dtype |-> adorned_image.dtype,
                       dwell_time |-> calls[c].dwell_time,
                       n |-> adorned_image.n]
          ELSE ret' = [op |-> "get_image", kind |-> adorned_image.error]
    /\ calls' = [calls EXCEPT ![c] = NoCall]
    /\ UNCHANGED <<program, micVars, haadfVars, notAutoscript>>

AutoscriptNext ==
    \/ HAADF_read_dwell_time
    \/ \E v \in HaadfDwellInputs : HAADF_write_dwell_time(v)
    \/ HAADF_read_image_width
    \/ \E v \in HaadfSizeInputs : HAADF_write_image_width(v)
    \/ HAADF_read_image_height
    \/ \E v \in HaadfSizeInputs : HAADF_write_image_height(v)
    \/ \E ok \in BOOLEAN : Microscope_Connect(ok)
    \/ Microscope_Disconnect
    \/ \E c \in Clients, n \in ImageNames : Microscope_get_image(c, n)
    \/ \E c \in Clients : Microscope_get_image_width(c)
    \/ \E c \in Clients : Microscope_get_image_return(c)

---------------------------------------------------------------------------
(* src/async-tutorial/gevent_device_server.py: GeventDevice                *)
(* green_mode = GreenMode.Gevent: every request and every spawned task is  *)
(* a greenlet of the device's loop. A greenlet runs until it calls         *)
(* gevent.sleep or ends, and then another one runs; requests are not       *)
(* serialised by the device monitor.                                       *)

\* the greenlets gevent.spawn has created and that have not ended
Tasks == 1 .. MaxTasks

\* init_device: ON, nothing spawned
GeventInit ==
    /\ gv_state = "ON"
    /\ gv_tasks = [t \in Tasks |-> "none"]

\* mutant: long_running_command returns without setting CLOSE
Mutant_long_running_command_return_early(c) ==
    /\ program.name = "gevent"
    /\ calls[c].op = "long_running_command"
    /\ ret' = [op |-> "long_running_command", kind |-> "ok"]
    /\ calls' = [calls EXCEPT ![c] = NoCall]
    /\ UNCHANGED <<program, geventVars, notGevent>>

\* long_running_command up to gevent.sleep(2): OPEN
GeventDevice_long_running_command(c) ==
    /\ program.name = "gevent"
    /\ calls[c] = NoCall
    /\ gv_state' = "OPEN"
    /\ calls' = [calls EXCEPT ![c] =
                   [op |-> "long_running_command", dev |-> "gevent"]]
    /\ UNCHANGED <<program, gv_tasks, notGevent, ret>>

\* long_running_command after gevent.sleep(2): CLOSE, and the return
GeventDevice_long_running_command_return(c) ==
    /\ program.name = "gevent"
    /\ calls[c].op = "long_running_command"
    /\ gv_state' = "CLOSE"
    /\ ret' = [op |-> "long_running_command", kind |-> "ok"]
    /\ calls' = [calls EXCEPT ![c] = NoCall]
    /\ UNCHANGED <<program, gv_tasks, notGevent>>

\* background_task_command: gevent.spawn(self.coroutine_target) schedules
\* the greenlet and returns it; the command returns
GeventDevice_background_task_command ==
    /\ program.name = "gevent"
    /\ \E t \in Tasks :
          /\ gv_tasks[t] = "none"
          /\ \A u \in Tasks : u < t => gv_tasks[u] # "none"
          /\ gv_tasks' = [gv_tasks EXCEPT ![t] = "spawned"]
    /\ ret' = [op |-> "background_task_command", kind |-> "ok"]
    /\ UNCHANGED <<program, gv_state, notGevent, calls>>

\* coroutine_target up to gevent.sleep(15): INSERT
GeventDevice_coroutine_target(t) ==
    /\ program.name = "gevent"
    /\ gv_tasks[t] = "spawned"
    /\ gv_state' = "INSERT"
    /\ gv_tasks' = [gv_tasks EXCEPT ![t] = "sleep"]
    /\ UNCHANGED <<program, notGevent, calls, ret>>

\* coroutine_target after gevent.sleep(15): EXTRACT, and the greenlet ends
GeventDevice_coroutine_target_return(t) ==
    /\ program.name = "gevent"
    /\ gv_tasks[t] = "sleep"
    /\ gv_state' = "EXTRACT"
    /\ gv_tasks' = [gv_tasks EXCEPT ![t] = "none"]
    /\ UNCHANGED <<program, notGevent, calls, ret>>

\* the read of test_attribute up to gevent.sleep(2)
GeventDevice_test_attribute(c) ==
    /\ program.name = "gevent"
    /\ calls[c] = NoCall
    /\ calls' = [calls EXCEPT ![c] =
                   [op |-> "test_attribute", dev |-> "gevent"]]
    /\ UNCHANGED <<program, geventVars, notGevent, ret>>

\* the read of test_attribute after gevent.sleep(2): 42
GeventDevice_test_attribute_return(c) ==
    /\ program.name = "gevent"
    /\ calls[c].op = "test_attribute"
    /\ ret' = [op |-> "test_attribute", kind |-> "ok", val |-> 42]
    /\ calls' = [calls EXCEPT ![c] = NoCall]
    /\ UNCHANGED <<program, geventVars, notGevent>>

GeventNext ==
    \/ \E c \in Clients : GeventDevice_long_running_command(c)
    \/ \E c \in Clients : GeventDevice_long_running_command_return(c)
    \/ GeventDevice_background_task_command
    \/ \E t \in Tasks : GeventDevice_coroutine_target(t)
    \/ \E t \in Tasks : GeventDevice_coroutine_target_return(t)
    \/ \E c \in Clients : GeventDevice_test_attribute(c)
    \/ \E c \in Clients : GeventDevice_test_attribute_return(c)

---------------------------------------------------------------------------

Programs ==
    [name : {"twin"}, addressed : TwinWorkloads,
     autoscript_available : {FALSE}]
    \cup [name : {"servers"}, addressed : ServerWorkloads,
          autoscript_available : {FALSE}]
    \cup [name : {"autoscript"}, addressed : {{"Microscope", "HAADF"}},
          autoscript_available : BOOLEAN]
    \cup [name : {"gevent"}, addressed : {{"GeventDevice"}},
          autoscript_available : {FALSE}]

Init ==
    /\ program \in Programs
    /\ TwinInit
    /\ DetectorInit
    /\ SystemInit
    /\ HaadfInit
    /\ MicroscopeInit
    /\ GeventInit
    /\ calls = [c \in Clients |-> NoCall]
    /\ ret = NoRet

Next == TwinNext \/ ServersNext \/ AutoscriptNext \/ GeventNext

Spec == Init /\ [][Next]_vars

\* time.sleep returns and the handler's thread goes on: an acquisition in
\* progress is not delayed for ever; gevent.sleep returns and the loop
\* runs every greenlet that is ready
Fairness ==
    /\ \A c \in Clients :
          /\ WF_vars(DeviceASTwin_GetImage_return(c))
          /\ WF_vars(DetectorDevice_GetImage_return(c))
          /\ WF_vars(GeventDevice_long_running_command_return(c))
    /\ \A t \in 1 .. MaxTasks :
          /\ WF_vars(GeventDevice_coroutine_target(t))
          /\ WF_vars(GeventDevice_coroutine_target_return(t))

FairSpec == Spec /\ Fairness

---------------------------------------------------------------------------
(* The claims *)

\* every detector of the program that runs, with its configuration
Detectors ==
    IF program.name = "twin" THEN TwinDetectors
    ELSE IF program.name = "servers" THEN DetectorIds ELSE {}
Active(d) == IF program.name = "twin" THEN tw_active[d] ELSE dd_active[d]
Dwell(d) == IF program.name = "twin" THEN tw_dwell[d] ELSE dd_dwell[d]
Res(d) == IF program.name = "twin" THEN tw_res[d] ELSE dd_res[d]
Config(d) == <<Active(d), Dwell(d), Res(d)>>
\* the state and the status a client observes for detector d
State(d) == IF program.name = "twin" THEN tw_state ELSE dd_state[d]
Status(d) == IF program.name = "twin" THEN tw_status ELSE dd_status[d]
\* the detector an acquisition in progress is on
DetectorOf(call) == IF call.dev = "twin" THEN call.detector ELSE call.dev
InFlight(c, d) ==
    /\ calls[c].op = "GetImage"
    /\ DetectorOf(calls[c]) = d

\* the handlers, whichever program runs
WriteDwellTime(d, v) ==
    \/ d \in TwinDetectors /\ DeviceASTwin_write_detector_dwell_time(d, v)
    \/ d \in DetectorIds /\ DetectorDevice_write_dwell_time(d, v)
WriteResolution(d, v) ==
    \/ d \in TwinDetectors /\ DeviceASTwin_write_detector_resolution(d, v)
    \/ d \in DetectorIds /\ DetectorDevice_write_resolution(d, v)
WriteActive(d, v) ==
    \/ d \in TwinDetectors /\ DeviceASTwin_write_detector_active(d, v)
    \/ d \in DetectorIds /\ DetectorDevice_write_active(d, v)
ReadDwellTime(d) ==
    \/ d \in TwinDetectors /\ DeviceASTwin_read_detector_dwell_time(d)
    \/ d \in DetectorIds /\ DetectorDevice_dwell_time(d)
ReadResolution(d) ==
    \/ d \in TwinDetectors /\ DeviceASTwin_read_detector_resolution(d)
    \/ d \in DetectorIds /\ DetectorDevice_resolution(d)
ReadActive(d) ==
    \/ d \in TwinDetectors /\ DeviceASTwin_read_detector_active(d)
    \/ d \in DetectorIds /\ DetectorDevice_active(d)
\* acquire(name): the step that serves the request up to its sleep
Acquire(c, name) ==
    \/ program.name = "twin" /\ DeviceASTwin_GetImage(c, name)
    \/ name \in DetectorIds /\ DetectorDevice_GetImage(c, name)
\* the step that ends the acquisition of client c
AcquireReturn(c) ==
    \/ DeviceASTwin_GetImage_return(c)
    \/ DetectorDevice_GetImage_return(c)

\* a step that may be an acquire: it returns from GetImage or starts a call
AcquireStep == ret'.op = "GetImage" \/ calls' # calls
InRangeDwell(v) == v > 0
InRangeResolution(v) == v >= 1 /\ v <= 4096

\* C1: a dwell_time or resolution write on an inactive detector fails with
\* the not-active error and changes neither dwell_time nor resolution of any
\* detector; on an active detector a write of an in-range value succeeds and
\* stores exactly that value, and a read returns the stored value.
C1_WritesNeedActive ==
    [][ /\ \A d \in Detectors, v \in DwellInputs :
              (ret'.op = "write_dwell_time" /\ WriteDwellTime(d, v)) =>
                 IF ~Active(d)
                 THEN /\ ret'.kind = "NotActive"
                      /\ \A e \in Detectors : Config(e)' = Config(e)
                 ELSE InRangeDwell(v) =>
                         /\ ret'.kind = "ok"
                         /\ Dwell(d)' = v
        /\ \A d \in Detectors, v \in ResInputs :
              (ret'.op = "write_resolution" /\ WriteResolution(d, v)) =>
                 IF ~Active(d)
                 THEN /\ ret'.kind = "NotActive"
                      /\ \A e \in Detectors : Config(e)' = Config(e)
                 ELSE InRangeResolution(v) =>
                         /\ ret'.kind = "ok"
                         /\ Res(d)' = v
        /\ \A d \in Detectors :
              /\ (ret'.op = "read_dwell_time" /\ ReadDwellTime(d)) =>
                    ret'.kind = "ok" /\ ret'.val = Dwell(d)
              /\ (ret'.op = "read_resolution" /\ ReadResolution(d)) =>
                    ret'.kind = "ok" /\ ret'.val = Res(d)
      ]_vars

\* C1's case: detector_A holds a written resolution and a written dwell time
\* (both writes succeeded) and the last write, on the inactive detector_B,
\* was refused.
C1_Witness ==
    /\ program.name = "twin"
    /\ tw_res["detector_A"] = 10 /\ tw_dwell["detector_A"] = 60
    /\ tw_active["detector_A"] /\ ~tw_active["detector_B"]
    /\ ret.op = "write_dwell_time" /\ ret.kind = "NotActive"

\* the first precondition of acquire(name) that fails, in the order
\* NotConnected, UnknownDetector, NotActive, TooLong ("none": all hold). A
\* DetectorDevice serves its own acquire: the last two only.
FirstFailure(name) ==
    IF program.name = "twin" /\ tw_microscope = "None" THEN "NotConnected"
    ELSE IF name \notin Detectors THEN "UnknownDetector"
    ELSE IF ~Active(name) THEN "NotActive"
    ELSE IF TotalTime(Dwell(name), Res(name)) > 6000 THEN "TooLong"
    ELSE "none"

\* C2: acquire fails with the first precondition that does not hold, in the
\* order NotConnected, UnknownDetector, NotActive, TooLong, and a failed
\* precondition changes no state, no status and no configuration; with all
\* of them holding the state becomes RUNNING.
C2_PreconditionOrder ==
    [][ \A c \in Clients, name \in Detectors \cup {"nonexistent"} :
           (AcquireStep /\ Acquire(c, name)) =>
              IF FirstFailure(name) # "none"
              THEN /\ ret'.op = "GetImage"
                   /\ ret'.kind = FirstFailure(name)
                   /\ UNCHANGED <<twinVars, detectorVars, systemVars, calls>>
              ELSE /\ State(name)' = "RUNNING"
                   /\ InFlight(c, name)'
      ]_vars

\* C2's case: the only detector addressed is inactive with a configuration
\* over the budget, and the acquire on it was refused as not active.
C2_Witness ==
    /\ program.name = "servers" /\ program.addressed = {"C", "microscope"}
    /\ ~dd_active["C"]
    /\ TotalTime(dd_dwell["C"], dd_res["C"]) > 6000
    /\ ret.op = "GetImage" /\ ret.kind = "NotActive"
    /\ dd_state["C"] = "STANDBY"

\* C3: a detector's state becomes RUNNING only by an acquire on it whose
\* total time is at most 600 s; an acquire with a total of exactly 600 s is
\* accepted; an acquire with a larger total (every other precondition
\* holding) fails with TooLong, the message holding the total to one decimal
\* and the ceiling 600, and leaves state and status as they were.
C3_TimeBudget ==
    [][ /\ \A d \in Detectors :
              (State(d)' = "RUNNING" /\ State(d) # "RUNNING") =>
                 \E c \in Clients, e \in Detectors :
                    /\ InFlight(c, e)' /\ ~InFlight(c, e)
                    /\ State(e)' = "RUNNING"
                    /\ TotalTime(Dwell(e), Res(e)) <= 6000
        /\ \A c \in Clients, d \in Detectors :
              (AcquireStep /\ Acquire(c, d)
                 /\ FirstFailure(d) \in {"none", "TooLong"}) =>
                 LET total == TotalTime(Dwell(d), Res(d))
                 IN IF total <= 6000
                    THEN State(d)' = "RUNNING"
                    ELSE /\ ret'.kind = "TooLong"
                         /\ ret'.total = <<total \div 10, total % 10>>
                         /\ ret'.max = 600
                         /\ State(d)' = State(d) /\ State(d)' # "RUNNING"
                         /\ Status(d)' = Status(d)
      ]_vars

\* C3's case: an acquisition is running whose total time is exactly 600 s.
C3_Witness ==
    \E c \in Clients, d \in Detectors :
       /\ InFlight(c, d) /\ State(d) = "RUNNING"
       /\ TotalTime(Dwell(d), Res(d)) = 6000

\* C4: on DeviceASTwin an acquire before the first successful Connect fails
\* with NotConnected and changes nothing; after it, an acquire on a
\* registered, active detector within the budget runs and returns an image.
C4_AcquireNeedsConnect ==
    [][ \A c \in Clients :
           /\ \A name \in TwinDetectors \cup {"nonexistent"} :
                 (AcquireStep /\ DeviceASTwin_GetImage(c, name)) =>
                    IF tw_microscope = "None"
                    THEN /\ ret'.kind = "NotConnected"
                         /\ UNCHANGED <<twinVars, calls>>
                    ELSE (/\ name \in TwinDetectors
                          /\ tw_active[name]
                          /\ TotalTime(tw_dwell[name], tw_res[name]) <= 6000)
                         => (tw_state' = "RUNNING" /\ InFlight(c, name)')
           /\ (AcquireStep /\ DeviceASTwin_GetImage_return(c)) =>
                 ret'.kind = "ok" /\ tw_state' = "STANDBY"
      ]_vars

\* C5: at most one acquisition is in progress on a detector, and while one
\* is, an acquire of another client on that detector is not served.
C5_OneAcquisitionPerDetector ==
    \A d \in Detectors :
       /\ Cardinality({c \in Clients : InFlight(c, d)}) <= 1
       /\ \A c1, c2 \in Clients :
             (c1 # c2 /\ InFlight(c1, d)) => ~ENABLED Acquire(c2, d)

\* C5's case: client c1's acquisition is running and c2's acquire waits.
C5_Witness ==
    \E d \in Detectors :
       /\ InFlight("c1", d) /\ State(d) = "RUNNING"
       /\ ~ENABLED Acquire("c2", d)

\* C6: for every acquire the observed state goes STANDBY, RUNNING, then
\* STANDBY or FAULT, with no other change of it in between: the state is
\* RUNNING as long as the acquisition is in progress.
C6_StateSequence ==
    [][ \A d \in Detectors, c \in Clients :
           /\ InFlight(c, d) => State(d) = "RUNNING"
           /\ (~InFlight(c, d) /\ InFlight(c, d)') =>
                 State(d) = "STANDBY" /\ State(d)' = "RUNNING"
           /\ (InFlight(c, d) /\ ~InFlight(c, d)') =>
                 State(d)' \in {"STANDBY", "FAULT"}
           /\ (InFlight(c, d) /\ InFlight(c, d)') => State(d)' = State(d)
      ]_vars

\* what holds of C6: the same sequence, started from STANDBY or FAULT
C6_Serialised ==
    [][ \A d \in Detectors, c \in Clients :
           /\ InFlight(c, d) => State(d) = "RUNNING"
           /\ (~InFlight(c, d) /\ InFlight(c, d)') =>
                 State(d) \in {"STANDBY", "FAULT"} /\ State(d)' = "RUNNING"
           /\ (InFlight(c, d) /\ ~InFlight(c, d)') =>
                 State(d)' \in {"STANDBY", "FAULT"}
           /\ (InFlight(c, d) /\ InFlight(c, d)') => State(d)' = State(d)
      ]_vars

\* C7: while an acquisition on a detector is in progress no write of its
\* active flag, dwell time or resolution is served and its configuration
\* does not change; the image returned has the resolution the status
\* announced, which is the one the total time was computed from.
C7_NoWriteDuringAcquisition ==
    [][ \A d \in Detectors, c \in Clients :
           InFlight(c, d) =>
              /\ Config(d)' = Config(d)
              /\ \A v \in BOOLEAN : ~ENABLED WriteActive(d, v)
              /\ \A v \in DwellInputs : ~ENABLED WriteDwellTime(d, v)
              /\ \A v \in ResInputs : ~ENABLED WriteResolution(d, v)
              /\ (AcquireReturn(c) /\ ret'.kind = "ok") =>
                    /\ ret'.n = Status(d).w * Status(d).h
                    /\ Status(d).w = Res(d) /\ Status(d).h = Res(d)
                    /\ calls[c].total_time = TotalTime(Dwell(d), Res(d))
                    /\ calls[c].total_time <= 6000
      ]_vars

\* C7's case: an acquisition on a DetectorDevice is in progress and a
\* resolution write on it is not served.
C7_Witness ==
    \E d \in DetectorIds :
       /\ InFlight("c1", d) /\ dd_active[d]
       /\ ~ENABLED DetectorDevice_write_resolution(d, 1)

\* C8: a successful acquire returns resolution * resolution samples of the
\* detector's resolution; Microscope.get_image declares the shape
\* [image_height, image_width] it read from the HAADF device and returns
\* shape[0] * shape[1] samples.
C8_ShapeMatchesBuffer ==
    [][ \A c \in Clients :
           /\ \A d \in Detectors :
                 (/\ ret'.op = "GetImage" /\ ret'.kind = "ok"
                  /\ InFlight(c, d) /\ AcquireReturn(c)) =>
                    ret'.n = Res(d)' * Res(d)' /\ Res(d)' = Res(d)
           /\ (ret'.op = "get_image" /\ ret'.kind = "ok"
                 /\ Microscope_get_image_return(c)) =>
                 /\ ret'.shape = <<ha_height, calls[c].width>>
                 /\ ret'.n = ret'.shape[1] * ret'.shape[2]
      ]_vars

\* C8's case: get_image returned an image whose height and width differ,
\* the width having been written between the reads of the call.
C8_Witness ==
    /\ ret.op = "get_image" /\ ret.kind = "ok"
    /\ ret.shape = <<512, 1024>> /\ ret.n = 512 * 1024
    /\ ha_width = 512

C10_FaultIsSticky ==
    [][ \A d \in Detectors :
           State(d) = "FAULT" =>
              /\ (AcquireStep /\ \E c \in Clients, name \in Detectors :
                                    Acquire(c, name) \/ AcquireReturn(c))
                    => State(d)' = "FAULT"
              /\ (ReadActive(d) \/ ReadDwellTime(d) \/ ReadResolution(d)) =>
                    ret'.kind = "ok" /\ State(d)' = "FAULT"
      ]_vars

\* C11: a resolution write with a value below 1 or above 4096 never
\* succeeds: on an active detector it fails with the invalid-value error,
\* on an inactive one with NotActive, and the stored resolution is unchanged.
C11_ResolutionRange ==
    [][ \A d \in Detectors, v \in ResInputs :
           (/\ ret'.op = "write_resolution" /\ WriteResolution(d, v)
            /\ ~InRangeResolution(v)) =>
              /\ ret'.kind = IF Active(d) THEN "ValueError" ELSE "NotActive"
              /\ Res(d)' = Res(d)
      ]_vars

\* C12: a dwell time write with a value <= 0 on an active detector fails
\* with the invalid-value error and the stored dwell time is unchanged; a
\* value > 0 on an active detector is stored.
C12_DwellTimeRange ==
    [][ \A d \in Detectors, v \in DwellInputs :
           (/\ ret'.op = "write_dwell_time" /\ WriteDwellTime(d, v)
            /\ Active(d)) =>
              IF v <= 0
              THEN ret'.kind = "ValueError" /\ Dwell(d)' = Dwell(d)
              ELSE ret'.kind = "ok" /\ Dwell(d)' = v
      ]_vars

\* C13: every detector has 1 <= resolution <= 4096 and dwell_time > 0 in
\* every reachable state, and its dwell time and resolution change only
\* across a step taken while it is active.
C13_ConfigurationInvariant ==
    [][ \A d \in Detectors :
           /\ InRangeResolution(Res(d)) /\ InRangeDwell(Dwell(d))
           /\ InRangeResolution(Res(d)') /\ InRangeDwell(Dwell(d)')
           /\ (Res(d)' # Res(d) \/ Dwell(d)' # Dwell(d)) => Active(d)
      ]_vars

\* what holds of C13: the configuration changes only while active
C13_ChangesOnlyWhileActive ==
    [][ \A d \in Detectors :
           (Res(d)' # Res(d) \/ Dwell(d)' # Dwell(d)) => Active(d)
      ]_vars

\* C14: an acquire with a name that is not registered fails with
\* UnknownDetector, the error lists the registered names, and the call
\* changes no device state and no detector configuration (on DeviceASTwin
\* the connection check comes first, so the device is connected here).
C14_UnknownDetector ==
    [][ \A c \in Clients :
           /\ \A name \in TwinDetectors \cup {"nonexistent"} :
                 (/\ ret'.op = "GetImage" /\ DeviceASTwin_GetImage(c, name)
                  /\ tw_microscope # "None" /\ name \notin TwinDetectors) =>
                    /\ ret'.kind = "UnknownDetector"
                    /\ ret'.available = TwinDetectors
                    /\ UNCHANGED <<twinVars, calls>>
           /\ \A name \in ImageNames :
                 (/\ ret'.op = "get_image" /\ Microscope_get_image(c, name)
                  /\ LowerStrip(name) \notin mic_proxies) =>
                    /\ ret'.kind = "UnknownDetector"
                    /\ ret'.available = mic_proxies
                    /\ UNCHANGED <<micVars, haadfVars, calls>>
      ]_vars

\* C14's case: get_image with an unregistered name failed and listed the
\* registered detector.
C14_Witness ==
    /\ ret.op = "get_image" /\ ret.kind = "UnknownDetector"
    /\ ret.name = "nonexistent_detector" /\ ret.available = {"haadf"}
    /\ mic_state = "ON"

WellFormedEndpoints ==
    { [cs |-> <<"localhost">>, host |-> "localhost", port |-> 9001],
      [cs |-> <<"10.0.0.5", "1234">>, host |-> "10.0.0.5", port |-> 1234] }

\* C16: Connect with a well-formed 'host' or 'host:port' succeeds: the
\* device is connected afterwards, the endpoint recorded (on DeviceASTwin,
\* shown in the status) is that host with that port, 9001 when none was
\* given, and the message returned names them; this holds for every
\* Connect, so a repeated one replaces the endpoint.
C16_ConnectWellFormed ==
    [][ \A e \in WellFormedEndpoints :
           /\ (ret'.op = "Connect" /\ MicroscopeSystemDevice_Connect(e.cs)) =>
                 /\ ret'.kind = "ok"
                 /\ ret'.host = e.host /\ ret'.port = e.port
                 /\ ms_microscope' # "None"
                 /\ ms_connection_string' = <<e.host, e.port>>
                 /\ ms_state' = "ON"
           /\ (ret'.op = "Connect" /\ DeviceASTwin_Connect(e.cs)) =>
                 /\ ret'.kind = "ok"
                 /\ ret'.host = e.host /\ ret'.port = e.port
                 /\ tw_microscope' # "None"
                 /\ tw_status'.host = e.host /\ tw_status'.port = e.port
                 /\ tw_state' = "STANDBY"
      ]_vars

\* C16's case: Connect with 'host:port' succeeded and recorded the endpoint,
\* and a second Connect without a port would replace it by the host with
\* port 9001.
C16_Witness ==
    /\ ret.op = "Connect" /\ ret.kind = "ok" /\ ret.port = 1234
    /\ ms_microscope = "DigitalTwin"
    /\ ms_connection_string = <<"10.0.0.5", 1234>>
    /\ ENABLED (/\ MicroscopeSystemDevice_Connect(<<"localhost">>)
                /\ ms_connection_string' = <<"localhost", 9001>>)

\* the malformed connection strings among the inputs: a non-numeric port,
\* and two ':' separators
MalformedEndpoints == { <<"localhost", "abc">>, <<"a", "b", "c">> }

\* C17: Connect with a malformed endpoint fails, leaves the connection and
\* the recorded endpoint as they were, and leaves the device in FAULT.
C17_ConnectMalformed ==
    [][ \A cs \in MalformedEndpoints :
           /\ (ret'.op = "Connect" /\ MicroscopeSystemDevice_Connect(cs)) =>
                 /\ ret'.kind = "ValueError"
                 /\ UNCHANGED <<ms_microscope, ms_connection_string>>
                 /\ ms_state' = "FAULT"
           /\ (ret'.op = "Connect" /\ DeviceASTwin_Connect(cs)) =>
                 /\ ret'.kind = "ValueError"
                 /\ UNCHANGED tw_microscope
                 /\ tw_state' = "FAULT"
      ]_vars

\* what holds of C17: the failed Connect changes nothing at all
C17_MalformedChangesNothing ==
    [][ \A cs \in MalformedEndpoints :
           (ret'.op = "Connect"
              /\ (MicroscopeSystemDevice_Connect(cs)
                    \/ DeviceASTwin_Connect(cs))) =>
              /\ ret'.kind = "ValueError"
              /\ UNCHANGED <<systemVars, twinVars>>
      ]_vars

\* C18: when the AutoScript connection fails in init_device or in Connect,
\* the Microscope device is in FAULT when the operation returns, and it
\* becomes ON again only by a Connect whose connection succeeds.
C18_ConnectionFailureFaults ==
    /\ (program.name = "autoscript" /\ program.autoscript_available) =>
          mic_state = "FAULT"
    /\ [][ /\ \A proxy_ok \in BOOLEAN :
                (/\ ret'.op = "Connect" /\ Microscope_Connect(proxy_ok)
                 /\ ret'.connection_failed) => mic_state' = "FAULT"
           /\ (mic_state # "ON" /\ mic_state' = "ON") =>
                 (ret'.op = "Connect" /\ ~ret'.connection_failed)
         ]_vars

\* C19: no acquisition proceeds while the instrument is disconnected: on a
\* Microscope device in OFF get_image fails, a DeviceASTwin acquisition
\* runs only on a connected device, and a DetectorDevice acquisition runs
\* only when the detector was told of a connection or the coordinator of
\* its server is connected.
C19_NoAcquisitionWhileDisconnected ==
    [][ \A c \in Clients :
           /\ \A name \in ImageNames :
                 (Microscope_get_image(c, name) /\ mic_state = "OFF") =>
                    /\ calls' = calls
                    /\ ret'.op = "get_image" /\ ret'.kind # "ok"
           /\ (calls'[c].op = "get_image" \/ calls[c].op = "get_image") =>
                 mic_state # "OFF"
           /\ \A d \in Detectors :
                 InFlight(c, d)' =>
                    IF program.name = "twin" THEN tw_microscope # "None"
                    ELSE dd_connected[d] \/ ms_microscope # "None"
      ]_vars

\* what holds of C19: DeviceASTwin acquires only when connected
C19_TwinNeedsConnection ==
    \A c \in Clients :
       (calls[c].op = "GetImage" /\ calls[c].dev = "twin") =>
          tw_microscope # "None"

\* C20: GetStage fails with NotConnected when the device is not connected
\* and returns 5 coordinates when it is; either way it changes no device
\* state, no connection, no detector configuration and no acquisition in
\* progress.
C20_GetStage ==
    [][ /\ (ret'.op = "GetStage" /\ MicroscopeSystemDevice_GetStage) =>
              /\ IF ms_microscope = "None"
                 THEN ret'.kind = "NotConnected"
                 ELSE ret'.kind = "ok" /\ ret'.n = 5
              /\ UNCHANGED <<systemVars, detectorVars, calls>>
        /\ (ret'.op = "GetStage" /\ DeviceASTwin_GetStage) =>
              /\ IF tw_microscope = "None"
                 THEN ret'.kind = "NotConnected"
                 ELSE ret'.kind = "ok" /\ ret'.n = 5
              /\ UNCHANGED <<twinVars, calls>>
      ]_vars

\* C20's case: the coordinator returned the stage position while a detector
\* of its server was acquiring.
C20_Witness ==
    /\ ret.op = "GetStage" /\ ret.kind = "ok" /\ ret.n = 5
    /\ ms_state = "ON"
    /\ \E c \in Clients : InFlight(c, "C") /\ dd_state["C"] = "RUNNING"


\* a step of a request on detector x: a configuration write, the start of
\* an acquisition, or its end
StepOn(x) ==
    \/ \E v \in BOOLEAN : ret'.op = "write_active" /\ WriteActive(x, v)
    \/ \E v \in DwellInputs :
          ret'.op = "write_dwell_time" /\ WriteDwellTime(x, v)
    \/ \E v \in ResInputs :
          ret'.op = "write_resolution" /\ WriteResolution(x, v)
    \/ \E c \in Clients : AcquireStep /\ Acquire(c, x)
    \/ \E c \in Clients : AcquireStep /\ InFlight(c, x) /\ AcquireReturn(c)

\* C21: a configuration write or an acquisition on detector x leaves the
\* active flag, dwell time, resolution, state and status observed for every
\* other detector y unchanged.
C21_DetectorsShareNoState ==
    [][ \A x \in Detectors, y \in Detectors :
           (x # y /\ StepOn(x)) =>
              /\ Config(y)' = Config(y)
              /\ State(y)' = State(y)
              /\ Status(y)' = Status(y)
      ]_vars

\* what holds of C21: the configuration of the other detectors is untouched
\* in both programs, and on DetectorDevice their state and status as well
C21_ConfigurationsAreSeparate ==
    [][ \A x \in Detectors, y \in Detectors :
           (x # y /\ StepOn(x)) =>
              /\ Config(y)' = Config(y)
              /\ program.name = "servers" =>
                    (State(y)' = State(y) /\ Status(y)' = Status(y))
      ]_vars

DeviceFree(d) ==
    IF program.name = "twin" THEN MonitorFree("twin") ELSE MonitorFree(d)

\* C23: a write of the active flag is served in every state in which the
\* device serves requests (inactive, FAULT and unconnected included); it
\* succeeds, sets the flag to the value written and leaves dwell time,
\* resolution, state and status unchanged, so a detector deactivated and
\* activated again keeps its dwell time and resolution.
C23_SetActive ==
    [][ \A d \in Detectors, v \in BOOLEAN :
           /\ DeviceFree(d) => ENABLED WriteActive(d, v)
           /\ (ret'.op = "write_active" /\ WriteActive(d, v)) =>
                 /\ ret'.kind = "ok"
                 /\ Active(d)' = v
                 /\ Dwell(d)' = Dwell(d) /\ Res(d)' = Res(d)
                 /\ State(d)' = State(d) /\ Status(d)' = Status(d)
      ]_vars

\* C23's case: a DetectorDevice configured with 6.0 s and resolution 10 has
\* been deactivated, keeps both values, and can be activated again.
C23_Witness ==
    /\ program.name = "servers"
    /\ ret.op = "write_active" /\ ret.kind = "ok"
    /\ \E d \in DetectorIds :
          /\ ~dd_active[d] /\ dd_dwell[d] = 60 /\ dd_res[d] = 10
          /\ ENABLED DetectorDevice_write_active(d, TRUE)

\* C24: a read of active, dwell time or resolution is served in every state
\* in which the device serves requests, succeeds whether or not the
\* detector is active, returns the value stored, and changes no
\* configuration, state or status of any detector.
C24_Reads ==
    [][ \A d \in Detectors :
           /\ DeviceFree(d) =>
                 /\ ENABLED ReadActive(d)
                 /\ ENABLED ReadDwellTime(d)
                 /\ ENABLED ReadResolution(d)
           /\ (ret'.op = "read_active" /\ ReadActive(d)) =>
                 ret'.kind = "ok" /\ ret'.val = Active(d)
           /\ (ret'.op = "read_dwell_time" /\ ReadDwellTime(d)) =>
                 ret'.kind = "ok" /\ ret'.val = Dwell(d)
           /\ (ret'.op = "read_resolution" /\ ReadResolution(d)) =>
                 ret'.kind = "ok" /\ ret'.val = Res(d)
           /\ (/\ ret'.op \in {"read_active", "read_dwell_time",
                               "read_resolution"}
               /\ (ReadActive(d) \/ ReadDwellTime(d) \/ ReadResolution(d)))
                 => UNCHANGED <<twinVars, detectorVars, calls>>
      ]_vars

\* C24's case: the dwell time of an inactive DeviceASTwin detector was
\* read, with the advisory of the device.
C24_Witness ==
    /\ program.name = "twin"
    /\ ret.op = "read_dwell_time" /\ ret.kind = "ok" /\ ret.warn
    /\ \E d \in TwinDetectors : ~tw_active[d] /\ ret.val = tw_dwell[d]

\* C25: every detector starts with active = FALSE, dwell time 0.1 s,
\* resolution 256 and state STANDBY, and the set of detectors is the same
\* in every reachable state.
C25_DetectorsAtCreation ==
    /\ \A d \in Detectors :
          /\ Config(d) = <<FALSE, DefaultDwellTime, DefaultResolution>>
          /\ State(d) = "STANDBY"
    /\ [][Detectors' = Detectors]_vars

\* C25 as the code has it: every detector starts with active = FALSE, dwell
\* time 0.1 s and resolution 256; a DetectorDevice starts in STANDBY, the
\* DeviceASTwin device in INIT, which it leaves only for STANDBY by a
\* successful Connect; the set of detectors never changes.
C25_ConfigurationAtCreation ==
    /\ \A d \in Detectors :
          /\ Config(d) = <<FALSE, DefaultDwellTime, DefaultResolution>>
          /\ State(d) = IF program.name = "twin" THEN "INIT" ELSE "STANDBY"
    /\ [][ /\ Detectors' = Detectors
           /\ (tw_state = "INIT" /\ tw_state' # "INIT") =>
                 /\ tw_state' = "STANDBY"
                 /\ ret'.op = "Connect" /\ ret'.kind = "ok"
         ]_vars

\* C25's case: a DeviceASTwin just created, its detectors at their defaults
\* and the device in INIT
C25_Witness ==
    /\ program.name = "twin" /\ ret = NoRet
    /\ tw_state = "INIT" /\ tw_microscope = "None"
    /\ \A d \in TwinDetectors :
          ~tw_active[d] /\ tw_dwell[d] = 1 /\ tw_res[d] = 256

\* a read of a HAADF attribute returns the value the device holds
HaadfReadsReturnStored ==
    /\ (ret'.op = "read_dwell_time" /\ HAADF_read_dwell_time) =>
          ret'.kind = "ok" /\ ret'.val = ha_dwell /\ UNCHANGED haadfVars
    /\ (ret'.op = "read_image_width" /\ HAADF_read_image_width) =>
          ret'.kind = "ok" /\ ret'.val = ha_width /\ UNCHANGED haadfVars
    /\ (ret'.op = "read_image_height" /\ HAADF_read_image_height) =>
          ret'.kind = "ok" /\ ret'.val = ha_height /\ UNCHANGED haadfVars

\* a write of the HAADF image width or height stores the value and leaves
\* the other two attributes unchanged
HaadfSizeWritesStore ==
    \A v \in HaadfSizeInputs :
       /\ (ret'.op = "write_image_width" /\ HAADF_write_image_width(v)) =>
             /\ ret'.kind = "ok" /\ ha_width' = v
             /\ UNCHANGED <<ha_dwell, ha_height>>
       /\ (ret'.op = "write_image_height" /\ HAADF_write_image_height(v)) =>
             /\ ret'.kind = "ok" /\ ha_height' = v
             /\ UNCHANGED <<ha_dwell, ha_width>>

\* the HAADF attributes start at their defaults and change only by a write
\* that succeeds
HaadfChangesOnlyByWrites ==
    /\ ha_dwell' # ha_dwell =>
          ret'.op = "write_dwell_time" /\ ret'.kind = "ok"
    /\ ha_width' # ha_width =>
          ret'.op = "write_image_width" /\ ret'.kind = "ok"
    /\ ha_height' # ha_height =>
          ret'.op = "write_image_height" /\ ret'.kind = "ok"

\* C26: on the HAADF device every write of dwell_time, image_width or
\* image_height stores the value written and leaves the other two
\* unchanged, every read returns the value stored, and the three start at
\* 1e-6 s, 1024 and 1024.
C26_HaadfReadsBackWrites ==
    /\ ha_dwell = HaadfDefaultDwellTime
    /\ ha_width = HaadfDefaultSize /\ ha_height = HaadfDefaultSize
    /\ [][ /\ HaadfReadsReturnStored
           /\ HaadfSizeWritesStore
           /\ HaadfChangesOnlyByWrites
           /\ \A v \in HaadfDwellInputs :
                 (ret'.op = "write_dwell_time" /\ HAADF_write_dwell_time(v))
                    => /\ ret'.kind = "ok" /\ ha_dwell' = v
                       /\ UNCHANGED <<ha_width, ha_height>>
         ]_vars

\* C26 as the code has it: the same, except that a dwell_time write outside
\* 1e-9 .. 1e-3 s is refused and changes nothing, so dwell_time reads back
\* the value of the last write that was accepted.
C26_HaadfReadsBackAcceptedWrites ==
    /\ ha_dwell = HaadfDefaultDwellTime
    /\ ha_width = HaadfDefaultSize /\ ha_height = HaadfDefaultSize
    /\ [][ /\ HaadfReadsReturnStored
           /\ HaadfSizeWritesStore
           /\ HaadfChangesOnlyByWrites
           /\ \A v \in HaadfDwellInputs :
                 (ret'.op = "write_dwell_time" /\ HAADF_write_dwell_time(v))
                    => /\ IF v >= 1 /\ v <= 1000000
                          THEN ret'.kind = "ok" /\ ha_dwell' = v
                          ELSE /\ ret'.kind = "OutsideLimit"
                               /\ ha_dwell' = ha_dwell
                       /\ UNCHANGED <<ha_width, ha_height>>
         ]_vars

\* C26's case: a dwell_time of 5 us was written and a later write of 2 ms
\* was refused, the device still holding 5 us.
C26_Witness ==
    /\ ret.op = "write_dwell_time" /\ ret.kind = "OutsideLimit"
    /\ ha_dwell = 5000

\* every precondition of an acquire on detector d holds
Acquirable(d) ==
    /\ program.name = "twin" => tw_microscope # "None"
    /\ Active(d)
    /\ TotalTime(Dwell(d), Res(d)) <= 6000

\* the text of the status after a successful acquisition
ReadyText ==
    IF program.name = "twin" THEN "Image acquisition complete"
    ELSE "Detector ready"

\* C27: a successful acquisition ends in STANDBY with the ready status and
\* with the detector's active flag, dwell time and resolution as they were
\* when it started; the preconditions of an acquire still hold then, an
\* acquire whose preconditions hold starts, and whether it returns an image
\* depends on the resolution only, so a further acquire with the same
\* configuration succeeds again.
C27_AcquireAgain ==
    [][ \A c \in Clients, d \in Detectors :
           /\ (AcquireStep /\ Acquire(c, d) /\ Acquirable(d)) =>
                 InFlight(c, d)' /\ State(d)' = "RUNNING"
           /\ InFlight(c, d) => Config(d)' = Config(d)
           /\ (AcquireStep /\ InFlight(c, d) /\ AcquireReturn(c)) =>
                 /\ (ret'.kind = "ok") <=> (Res(d) >= 0)
                 /\ ret'.kind = "ok" =>
                       /\ State(d)' = "STANDBY"
                       /\ Status(d)'.text = ReadyText
                       /\ Acquirable(d)'
      ]_vars

\* C27's case: an acquisition has returned its image, the detector is in
\* STANDBY with its configuration, and the next acquire can start.
C27_Witness ==
    /\ ret.op = "GetImage" /\ ret.kind = "ok" /\ ret.n = 100
    /\ \E d \in DetectorIds :
          /\ dd_active[d] /\ dd_dwell[d] = 60 /\ dd_res[d] = 10
          /\ dd_state[d] = "STANDBY" /\ dd_status[d].text = "Detector ready"
          /\ ENABLED (DetectorDevice_GetImage("c1", d)
                        /\ dd_state'[d] = "RUNNING")

\* C28: whenever the state observed for a detector is RUNNING, an
\* acquisition is in progress on its device and the status names the
\* detector and the resolution of that acquisition; whenever the status is
\* the ready message, no acquisition is in progress on the device.
C28_StatusMatchesAcquisition ==
    /\ program.name = "twin" =>
          /\ tw_state = "RUNNING" =>
                \E c \in Clients :
                   /\ calls[c].op = "GetImage" /\ calls[c].dev = "twin"
                   /\ tw_status.text = "Acquiring"
                   /\ tw_status.id = calls[c].detector
                   /\ tw_status.w = calls[c].resolution
                   /\ tw_status.h = calls[c].resolution
          /\ tw_status.text = "Image acquisition complete" =>
                \A c \in Clients : calls[c] = NoCall
    /\ program.name = "servers" =>
          \A d \in DetectorIds :
             /\ dd_state[d] = "RUNNING" =>
                   \E c \in Clients :
                      /\ InFlight(c, d)
                      /\ dd_status[d].text = "Acquiring"
                      /\ dd_status[d].id = d
                      /\ dd_status[d].w = dd_res[d]
                      /\ dd_status[d].h = dd_res[d]
             /\ dd_status[d].text = "Detector ready" =>
                   \A c \in Clients : ~InFlight(c, d)

\* C28's case: detector_B of DeviceASTwin is acquiring and the status
\* announces it with its resolution.
C28_Witness ==
    /\ tw_state = "RUNNING"
    /\ tw_status.text = "Acquiring" /\ tw_status.id = "detector_B"
    /\ tw_status.w = 10
    /\ \E c \in Clients : InFlight(c, "detector_B")

\* resolutions of the range 1..4096 the generator is applied to
SynthResolutions == {1, 2, 3, 10, 255, 256, 4095, 4096}

\* the image is res x res with all samples in [0, 255], of the family the
\* identity selects
WellFormedImage(im, id, res) ==
    /\ im.ok
    /\ im.rows = res /\ im.cols = res /\ im.n = res * res
    /\ 0 <= im.lo /\ im.lo <= im.hi /\ im.hi <= 255
    /\ im.family = IF id = "A" THEN "gradient"
                   ELSE IF id = "B" THEN "radial" ELSE "random"

\* C29: for every resolution in 1..4096 and every identity the generator
\* returns a resolution x resolution image with all samples in [0, 255],
\* gradient for A, radial for B, random for every other identity, without
\* an error; so is every image a DetectorDevice has returned.
C29_ImageSynthesizer ==
    /\ \A id \in DetectorIds, res \in SynthResolutions :
          WellFormedImage(DetectorDevice_generate_simulated_image(id, res),
                          id, res)
    /\ (program.name = "servers" /\ ret.op = "GetImage" /\ ret.kind = "ok")
          => \E id \in program.addressed, res \in ResInputs :
                /\ res >= 1 /\ res <= 4096
                /\ WellFormedImage(ret.image, id, res)

\* C29's case: the detector with the identity D, which the generator does
\* not know, returned a 10 x 10 image of the random family.
C29_Witness ==
    /\ program.name = "servers" /\ program.addressed = {"D"}
    /\ ret.op = "GetImage" /\ ret.kind = "ok"
    /\ ret.image.family = "random" /\ ret.image.rows = 10 /\ ret.n = 100

\* C30: in the envelope of get_image, detector is the requested name
\* lower-cased and stripped, dwell_time and shape are the dwell_time,
\* image_height and image_width the HAADF device holds when the image is
\* acquired, and the buffer has shape[0] * shape[1] samples.
C30_EnvelopeMatchesDevice ==
    [][ \A c \in Clients :
           /\ (calls[c] = NoCall /\ calls'[c].op = "get_image") =>
                 /\ Microscope_get_image(c, "haadf")
                       \/ Microscope_get_image(c, " HAADF ")
                 /\ calls'[c].detector_name = "haadf"
           /\ (/\ ret'.op = "get_image" /\ ret'.kind = "ok"
               /\ Microscope_get_image_return(c)) =>
                 /\ ret'.detector = calls[c].detector_name
                 /\ ret'.dwell_time = ha_dwell
                 /\ ret'.shape = <<ha_height, ha_width>>
                 /\ ret'.n = ret'.shape[1] * ret'.shape[2]
      ]_vars

\* what holds of C30: each setting in the envelope is the value the HAADF
\* device held when get_image read it, and the shape matches the buffer
C30_EnvelopeMatchesReads ==
    [][ \A c \in Clients :
           /\ (calls[c] = NoCall /\ calls'[c].op = "get_image") =>
                 /\ calls'[c].detector_name = "haadf"
                 /\ calls'[c].dwell_time = ha_dwell
           /\ Microscope_get_image_width(c) =>
                 /\ calls'[c].width = ha_width
                 /\ calls'[c].dwell_time = calls[c].dwell_time
           /\ (/\ ret'.op = "get_image" /\ ret'.kind = "ok"
               /\ Microscope_get_image_return(c)) =>
                 /\ ret'.detector = calls[c].detector_name
                 /\ ret'.dwell_time = calls[c].dwell_time
                 /\ ret'.shape = <<ha_height, calls[c].width>>
                 /\ ret'.n = ret'.shape[1] * ret'.shape[2]
      ]_vars

\* the device that serves detector d is in state RUNNING
Running(d) ==
    \/ program.name = "twin" /\ d \in TwinDetectors /\ tw_state = "RUNNING"
    \/ program.name = "servers" /\ d \in DetectorIds
          /\ dd_state[d] = "RUNNING"

\* the device that serves detector d is in state STANDBY or FAULT
Left(d) ==
    \/ program.name = "twin" /\ d \in TwinDetectors
          /\ tw_state \in {"STANDBY", "FAULT"}
    \/ program.name = "servers" /\ d \in DetectorIds
          /\ dd_state[d] \in {"STANDBY", "FAULT"}

\* an acquire call is in progress on the device that serves detector d
Acquiring(d) ==
    \E c \in Clients :
       /\ calls[c].op = "GetImage"
       /\ calls[c].dev = (IF program.name = "twin" THEN "twin" ELSE d)

\* C31: under fair scheduling a device in RUNNING eventually is in STANDBY
\* or FAULT; the step that ends an acquire call leaves the device in
\* STANDBY when it returns an image and in FAULT when it raises, an acquire
\* call that raises before its sleep does not leave the device in RUNNING,
\* and a device is in RUNNING only while an acquire call is in progress.
C31_RunningEnds ==
    /\ \A d \in TwinDetectors \cup DetectorIds : Running(d) ~> Left(d)
    /\ [](\A d \in TwinDetectors \cup DetectorIds :
             Running(d) => Acquiring(d))
    /\ [][ \A c \in Clients, d \in Detectors :
              /\ (InFlight(c, d) /\ AcquireReturn(c)) =>
                    /\ ret'.op = "GetImage" /\ calls'[c] = NoCall
                    /\ State(d)' = (IF ret'.kind = "ok" THEN "STANDBY"
                                    ELSE "FAULT")
              /\ (AcquireStep /\ Acquire(c, d) /\ calls'[c] = NoCall) =>
                    /\ ret'.op = "GetImage" /\ ret'.kind # "ok"
                    /\ State(d)' # "RUNNING"
       ]_vars

\* an acquisition of the twin has raised and has left the device in FAULT,
\* with no call in progress
C31_Witness ==
    /\ program.name = "twin"
    /\ ret.op = "GetImage" /\ ret.kind = "ValueError"
    /\ tw_state = "FAULT"
    /\ \A c \in Clients : calls[c] = NoCall


\* C32: whenever the Microscope device is ON, its registry holds a proxy
\* for 'haadf' and get_image('haadf') does not fail with UnknownDetector;
\* the device is ON after init_device in simulation mode and after Connect.
C32_OnImpliesRegistry ==
    /\ (program.name = "autoscript" /\ ~program.autoscript_available) =>
          mic_state = "ON"
    /\ [](program.name = "autoscript" =>
             (mic_state = "ON" => "haadf" \in mic_proxies))
    /\ [][ /\ (\E ok \in BOOLEAN : Microscope_Connect(ok)) =>
                mic_state' = "ON"
           /\ \A c \in Clients :
                 (mic_state = "ON" /\ Microscope_get_image(c, "haadf")) =>
                    ~(ret'.op = "get_image" /\ ret'.kind = "UnknownDetector")
       ]_vars

\* what holds of C32: the device is ON after init_device and after every
\* Connect, whether or not the proxy was built; the registry holds 'haadf'
\* once one DeviceProxy construction has succeeded and never loses it, and
\* get_image('haadf') fails with UnknownDetector exactly when it is missing
C32_OnWhateverTheRegistry ==
    /\ program.name = "autoscript" => mic_state = "ON"
    /\ [][ /\ \A ok \in BOOLEAN :
                 (ret'.op = "Connect" /\ Microscope_Connect(ok)) =>
                    /\ mic_state' = "ON"
                    /\ mic_proxies' =
                          (IF ok THEN {"haadf"} ELSE mic_proxies)
           /\ mic_proxies \subseteq mic_proxies'
           /\ \A c \in Clients :
                 (/\ calls[c] = NoCall
                  /\ Microscope_get_image(c, "haadf")) =>
                    IF "haadf" \in mic_proxies
                    THEN calls'[c].op = "get_image" /\ ret' = ret
                    ELSE /\ calls'[c] = NoCall
                         /\ ret'.op = "get_image"
                         /\ ret'.kind = "UnknownDetector"
       ]_vars


\* long_running_command of client c is between its gevent.sleep and its
\* return
LongRunning(c) == calls[c].op = "long_running_command"

\* C33: on the gevent device background_task_command returns with the task
\* spawned and not yet run, the device state as it was; under fair
\* scheduling every spawned task sets INSERT and later sets EXTRACT and
\* ends; long_running_command sets OPEN, other requests are served while it
\* sleeps, and the state is CLOSE at the step it returns, whatever the
\* background tasks and the other requests did meanwhile.
C33_GeventDevice ==
    /\ \A t \in Tasks :
          /\ (gv_tasks[t] = "spawned") ~> (gv_tasks[t] = "sleep")
          /\ (gv_tasks[t] = "sleep") ~> (gv_tasks[t] = "none")
    /\ [][ /\ GeventDevice_background_task_command =>
                /\ ret'.op = "background_task_command" /\ ret'.kind = "ok"
                /\ gv_state' = gv_state /\ calls' = calls
                /\ \E t \in Tasks :
                      /\ gv_tasks[t] = "none" /\ gv_tasks'[t] = "spawned"
                      /\ \A u \in Tasks \ {t} : gv_tasks'[u] = gv_tasks[u]
           /\ \A t \in Tasks :
                 /\ (gv_tasks[t] = "none" /\ gv_tasks'[t] # "none") =>
                       /\ gv_tasks'[t] = "spawned"
                       /\ ret'.op = "background_task_command"
                 /\ (gv_tasks[t] = "spawned" /\ gv_tasks'[t] # "spawned") =>
                       gv_tasks'[t] = "sleep" /\ gv_state' = "INSERT"
                 /\ (gv_tasks[t] = "sleep" /\ gv_tasks'[t] # "sleep") =>
                       gv_tasks'[t] = "none" /\ gv_state' = "EXTRACT"
           /\ \A c \in Clients :
                 /\ GeventDevice_long_running_command(c) =>
                       gv_state' = "OPEN" /\ LongRunning(c)'
                 /\ LongRunning(c) =>
                       /\ \A c2 \in Clients :
                             calls[c2] = NoCall =>
                                /\ ENABLED GeventDevice_long_running_command(c2)
                                /\ ENABLED GeventDevice_test_attribute(c2)
                       /\ (\E t \in Tasks : gv_tasks[t] = "none") =>
                             ENABLED GeventDevice_background_task_command
                       /\ \A t \in Tasks :
                             gv_tasks[t] = "spawned" =>
                                ENABLED GeventDevice_coroutine_target(t)
                 /\ (LongRunning(c) /\ ~LongRunning(c)') =>
                       /\ gv_state' = "CLOSE"
                       /\ ret'.op = "long_running_command"
                       /\ ret'.kind = "ok"
       ]_vars

\* long_running_command has returned, the state CLOSE, while a task
\* spawned meanwhile is in its sleep and the other client's
\* long_running_command is still in progress
C33_Witness ==
    /\ program.name = "gevent"
    /\ ret.op = "long_running_command" /\ gv_state = "CLOSE"
    /\ \E t \in Tasks : gv_tasks[t] = "sleep"
    /\ \E c \in Clients : LongRunning(c)

=============================================================================
